---- MODULE Spec2Model ----
(***************************************************************************)
(* Model of the usdr_dm_create streaming session (src/tools/               *)
(* usdr_dm_create.c): the orchestration thread (main), its worker threads  *)
(* (disk_write_thread, disk_read_thread, the freq_gen threads), the ring   *)
(* buffers between them and the calls main makes on the stream API         *)
(* (src/lib/models/dm_stream.c).                                           *)
(*                                                                         *)
(* ring_buffer.h is not among the sources; the ring is modelled from the   *)
(* specification (section 4.3): a bounded slot pool with four cursors      *)
(* (producer-reserve, producer-commit, consumer-reserve, consumer-commit). *)
(***************************************************************************)
EXTENDS Integers, Sequences, FiniteSets, TLC

\* ---------------------------------------------------------------- bounds
\* Slots per ring (256 in main, scaled down).
RingSlots == 2
\* Largest block count (-c) a session is run with.
MaxCount == 4
\* Largest channel count a stream reports.
MaxCh == 2
\* Largest number of full blocks in the TX input file.
MaxFileBlocks == 3

\* ------------------------------------------------------------- constants
EIO == -5
ETIMEDOUT == -110
EPROTONOSUPPORT == -93
\* The all-ones timestamp; timestamps are kept 20 bits wide here (64 in the
\* code), wide enough that no schedule of the bounded runs wraps.
UINT64_MAX == 1048575
DEFAULT_SAMPLES == 4096
ALT_SAMPLES == 1000

\* The marker a timed-out reserve returns.
IDX_TIMEDOUT == -1
\* The address ring_buffer_at yields for IDX_TIMEDOUT: outside the slot array.
OOB == -2
\* No buffer assigned yet.
NOBUF == -3

NULL == "NULL"
\* rbuff[i] / tbuff[i] before ring_buffer_create: no ring.
NULL_RING == -1
ErrCodes == {EIO, ETIMEDOUT}
\* #define MAX_CHS 32: the length of the per-channel arrays.
MAX_CHS == MaxCh
Chans == 0..(MAX_CHS - 1)
\* Heap identities of the rings: main allocates one per channel and direction.
RingIds == 0..(2 * MaxCh - 1)

\* ------------------------------------------------------------------ state
VARIABLES
    opt,          \* command-line options (fixed after getopt)
    mpc,          \* main: position in the code
    res,          \* main: int res
    retval,       \* main: value returned
    usds_rx, usds_tx, strms,
    rx_bufcnt, tx_bufcnt,
    i, b,         \* main: block counter and channel counter of the loops
    rx_buffers, tx_buffers,   \* main: buffers[] handed to recv / send
    stm,          \* main: TX timestamp (stm / ts)
    s_stop, thread_stop, sig,
    rbuff, tbuff, \* ring_buffer_t* per channel (a RingId or NULL)
    ring,         \* the heap: RingId -> ring
    wthread,      \* disk_write_thread per channel: [pc, idx]
    rthread,      \* TX producer thread per channel: [pc, idx, n]
    s_out_file,   \* blocks written to each RX file, in order
    in_pos,       \* read position of s_in_file[0] (in blocks)
    calls,        \* stream API calls made so far, in order
    dev,          \* device side: state of the RX and the TX stream
    hist,         \* history: what happened in this run
    xdsp          \* converter registry: build, CPU, cached capability, selections

vars == <<opt, mpc, res, retval, usds_rx, usds_tx, strms, rx_bufcnt, tx_bufcnt,
          i, b, rx_buffers, tx_buffers, stm, s_stop, thread_stop, sig,
          rbuff, tbuff, ring, wthread, rthread, s_out_file, in_pos, calls,
          dev, hist, xdsp>>

mainvars == <<mpc, res, retval, usds_rx, usds_tx, strms, rx_bufcnt, tx_bufcnt,
              i, b, rx_buffers, tx_buffers, stm, thread_stop, calls, dev>>

\* ------------------------------------------------------------- ring buffer
\* ring_buffer_create(items, isize): all slots free, cursors at 0.
ring_buffer_create(items, isize) ==
    [items |-> items, isize |-> isize,
     pres |-> 0, pcom |-> 0, cres |-> 0, ccom |-> 0,
     data |-> [s \in 0..(items - 1) |-> 0]]

\* An unallocated ring.
NoRing == ring_buffer_create(0, 0)

\* A free slot exists: fewer than items slots are outstanding.
CanPWait(r) == r.pres - r.ccom < r.items
\* A committed slot exists.
CanCWait(r) == r.cres < r.pcom

\* ring_buffer_pwait: the slot index reserved, or IDX_TIMEDOUT.
ring_buffer_pwait_idx(r) == IF CanPWait(r) THEN r.pres % r.items ELSE IDX_TIMEDOUT
\* ring_buffer_pwait: the ring afterwards.
ring_buffer_pwait(r) == IF CanPWait(r) THEN [r EXCEPT !.pres = @ + 1] ELSE r
\* ring_buffer_ppost: the producer's commit.
ring_buffer_ppost(r) == [r EXCEPT !.pcom = @ + 1]
\* ring_buffer_cwait: the slot index reserved, or IDX_TIMEDOUT.
ring_buffer_cwait_idx(r) == IF CanCWait(r) THEN r.cres % r.items ELSE IDX_TIMEDOUT
\* ring_buffer_cwait: the ring afterwards.
ring_buffer_cwait(r) == IF CanCWait(r) THEN [r EXCEPT !.cres = @ + 1] ELSE r
\* ring_buffer_cpost: the consumer's commit.
ring_buffer_cpost(r) == [r EXCEPT !.ccom = @ + 1]
\* ring_buffer_at: the slot an index addresses.
ring_buffer_at(idx) == IF idx = IDX_TIMEDOUT THEN OOB ELSE idx
\* Store a payload into the slot a buffer address names (nothing of the ring
\* is written through an address outside it).
Store(r, buf, v) == IF buf \in 0..(r.items - 1) THEN [r EXCEPT !.data[buf] = v] ELSE r
\* Load the payload at a buffer address (0: bytes that are not a block).
Load(r, buf) == IF buf \in 0..(r.items - 1) THEN r.data[buf] ELSE 0

\* ------------------------------------------------------------ shorthands
dotx == opt.dotx
dorx == opt.dorx
nots == opt.nots
stop_on_error == opt.stop_on_error
noinit == opt.noinit
tx_from_file == opt.tx_from_file
tx_file_cycle == opt.tx_file_cycle
\* Bytes per sample of format ci16.
BytesPerSample == 4
\* The TX file: opt.fblocks whole blocks followed by opt.ftail more bytes.
block_size == opt.samples_tx * BytesPerSample
file_size == opt.fblocks * block_size + opt.ftail
\* count = atoi(optarg), or without -c for a TX file that is not cycled:
\* count = file_size / block_size; if (file_size % block_size) count++;
count ==
    IF opt.dotx /\ opt.tx_from_file /\ ~opt.explicit_count /\ ~opt.tx_file_cycle
    THEN (file_size \div block_size) + (IF file_size % block_size # 0 THEN 1 ELSE 0)
    ELSE opt.count
samples_tx == opt.samples_tx
\* tx_get_samples = samples_tx
tx_get_samples == samples_tx
\* snfo.pktbszie as usdr_dms_info reports it for a block of n samples.
pktbszie(n) == n * BytesPerSample

Alive == mpc \notin {"returned", "exited", "crashed"}
Note(f, v) == [hist EXCEPT ![f] = v]

\* --------------------------------------------------- disk_write_thread(ch)
\* A worker loop that does not read s_stop: C13 fails for it.
WorkerLoopCond_no_s_stop == ~thread_stop
\* while (!s_stop && !thread_stop)
WorkerLoopCond == ~s_stop /\ ~thread_stop
\* A worker without the IDX_TIMEDOUT test: C7 fails for it.
WorkerAfterWait_no_test(idx) == "io"
\* if (idx == IDX_TIMEDOUT) continue;
WorkerAfterWait(idx) == IF idx = IDX_TIMEDOUT THEN "loop" ELSE "io"

W_loop(ch) ==
    /\ wthread[ch].pc = "loop"
    /\ wthread' = [wthread EXCEPT ![ch].pc = IF WorkerLoopCond THEN "wait" ELSE "done"]
    /\ UNCHANGED <<ring, s_out_file, hist>>

W_cwait(ch) ==
    /\ wthread[ch].pc = "wait"
    /\ LET r == ring[rbuff[ch]]
           idx == ring_buffer_cwait_idx(r)
       IN /\ ring' = [ring EXCEPT ![rbuff[ch]] = ring_buffer_cwait(r)]
          /\ wthread' = [wthread EXCEPT ![ch] = [pc |-> WorkerAfterWait(idx), idx |-> idx]]
    /\ UNCHANGED <<s_out_file, hist>>

\* A writer that always writes out the first slot: C2 fails for it.
W_fwrite_ok_first_slot(ch) ==
    /\ wthread[ch].pc = "io"
    /\ s_out_file' = [s_out_file EXCEPT ![ch] =
                        Append(@, Load(ring[rbuff[ch]], ring_buffer_at(0)))]
    /\ wthread' = [wthread EXCEPT ![ch].pc = "post"]
    /\ UNCHANGED <<ring, hist>>
\* fwrite(data, s_rx_blksz, 1, s_out_file[i]) returned 1
W_fwrite_ok(ch) ==
    /\ wthread[ch].pc = "io"
    /\ s_out_file' = [s_out_file EXCEPT ![ch] =
                        Append(@, Load(ring[rbuff[ch]], ring_buffer_at(wthread[ch].idx)))]
    /\ wthread' = [wthread EXCEPT ![ch].pc = "post"]
    /\ UNCHANGED <<ring, hist>>

\* fwrite failed: log and break
W_fwrite_fail(ch) ==
    /\ wthread[ch].pc = "io"
    /\ wthread' = [wthread EXCEPT ![ch].pc = "done"]
    /\ hist' = Note("ioerr", TRUE)
    /\ UNCHANGED <<ring, s_out_file>>

\* A writer that commits on the producer side of its ring: C16 fails for it.
W_cpost_as_producer(ch) ==
    /\ wthread[ch].pc = "post"
    /\ ring' = [ring EXCEPT ![rbuff[ch]] = ring_buffer_ppost(@)]
    /\ wthread' = [wthread EXCEPT ![ch].pc = "loop"]
    /\ UNCHANGED <<s_out_file, hist>>
W_cpost(ch) ==
    /\ wthread[ch].pc = "post"
    /\ ring' = [ring EXCEPT ![rbuff[ch]] = ring_buffer_cpost(@)]
    /\ wthread' = [wthread EXCEPT ![ch].pc = "loop"]
    /\ UNCHANGED <<s_out_file, hist>>

disk_write_thread(ch) ==
    /\ Alive
    /\ \/ W_loop(ch)
       \/ W_cwait(ch)
       \/ W_fwrite_ok(ch)
       \/ W_fwrite_fail(ch)
       \/ W_cpost(ch)
    /\ UNCHANGED <<opt, xdsp, mainvars, s_stop, sig, rbuff, tbuff, rthread, in_pos>>

\* ------------------------------------ disk_read_thread(ch) / freq_gen_thread
R_loop(ch) ==
    /\ rthread[ch].pc = "loop"
    /\ rthread' = [rthread EXCEPT ![ch].pc = IF WorkerLoopCond THEN "wait" ELSE "done"]
    /\ UNCHANGED <<ring, in_pos, hist>>

R_pwait(ch) ==
    /\ rthread[ch].pc = "wait"
    /\ LET r == ring[tbuff[ch]]
           idx == ring_buffer_pwait_idx(r)
       IN /\ ring' = [ring EXCEPT ![tbuff[ch]] = ring_buffer_pwait(r)]
          /\ rthread' = [rthread EXCEPT ![ch].pc = WorkerAfterWait(idx), ![ch].idx = idx]
    /\ UNCHANGED <<in_pos, hist>>

\* A slot of ring r holds a block of n samples.
SlotHolds(r, n) == n * BytesPerSample <= r.isize

\* freq_gen_thread_ci16 / _cf32: fill the slot with the next tx_get_samples
\* samples. A block longer than the slot is written past the slot's end: the
\* following slot may be overwritten with it.
R_generate(ch) ==
    /\ rthread[ch].pc = "io"
    /\ ~tx_from_file
    /\ LET r == ring[tbuff[ch]]
           at == ring_buffer_at(rthread[ch].idx)
           v == rthread[ch].n + 1
       IN \E spill \in (IF SlotHolds(r, tx_get_samples) THEN {FALSE} ELSE BOOLEAN) :
             ring' = [ring EXCEPT ![tbuff[ch]] =
                        IF spill THEN Store(Store(r, at, v), at + 1, v) ELSE Store(r, at, v)]
    /\ rthread' = [rthread EXCEPT ![ch].pc = "post", ![ch].n = @ + 1]
    /\ UNCHANGED <<in_pos, hist>>

\* The write past the end of the slot leaves the ring's memory: the process may die.
R_overrun(ch) ==
    /\ rthread[ch].pc = "io"
    /\ ~tx_from_file
    /\ ~SlotHolds(ring[tbuff[ch]], tx_get_samples)
    /\ mpc' = "crashed"
    /\ UNCHANGED <<opt, xdsp, res, retval, usds_rx, usds_tx, strms, rx_bufcnt, tx_bufcnt,
                   i, b, rx_buffers, tx_buffers, stm, s_stop, thread_stop, sig,
                   rbuff, tbuff, ring, wthread, rthread, s_out_file, in_pos, calls,
                   dev, hist>>

\* disk_read_thread: fread returned 1
R_fread_ok(ch) ==
    /\ rthread[ch].pc = "io"
    /\ tx_from_file
    /\ in_pos < opt.fblocks
    /\ ring' = [ring EXCEPT ![tbuff[ch]] =
                  Store(@, ring_buffer_at(rthread[ch].idx), in_pos + 1)]
    /\ in_pos' = in_pos + 1
    /\ rthread' = [rthread EXCEPT ![ch].pc = "post", ![ch].n = @ + 1]
    /\ UNCHANGED hist

\* disk_read_thread: fread hit the end of the file (a trailing partial block
\* is consumed and not delivered)
R_fread_eof(ch) ==
    /\ rthread[ch].pc = "io"
    /\ tx_from_file
    /\ in_pos >= opt.fblocks
    /\ IF tx_file_cycle
       THEN \* rewind and read again
            IF opt.fblocks >= 1
            THEN /\ ring' = [ring EXCEPT ![tbuff[ch]] =
                               Store(@, ring_buffer_at(rthread[ch].idx), 1)]
                 /\ in_pos' = 1
                 /\ rthread' = [rthread EXCEPT ![ch].pc = "post", ![ch].n = @ + 1]
                 /\ UNCHANGED hist
            ELSE /\ rthread' = [rthread EXCEPT ![ch].pc = "done"]
                 /\ hist' = Note("ioerr", TRUE)
                 /\ UNCHANGED <<ring, in_pos>>
       ELSE /\ rthread' = [rthread EXCEPT ![ch].pc = "done"]
            /\ hist' = Note("eof", TRUE)
            /\ UNCHANGED <<ring, in_pos>>

\* disk_read_thread: fread failed without end of file
R_fread_fail(ch) ==
    /\ rthread[ch].pc = "io"
    /\ tx_from_file
    /\ rthread' = [rthread EXCEPT ![ch].pc = "done"]
    /\ hist' = Note("ioerr", TRUE)
    /\ UNCHANGED <<ring, in_pos>>

R_ppost(ch) ==
    /\ rthread[ch].pc = "post"
    /\ ring' = [ring EXCEPT ![tbuff[ch]] = ring_buffer_ppost(@)]
    /\ hist' = [hist EXCEPT !.txcommit[ch] =
                   Append(@, Load(ring[tbuff[ch]], ring_buffer_at(rthread[ch].idx)))]
    /\ rthread' = [rthread EXCEPT ![ch].pc = "loop"]
    /\ UNCHANGED in_pos

tx_thread(ch) ==
    /\ Alive
    /\ \/ /\ \/ R_loop(ch)
             \/ R_pwait(ch)
             \/ R_generate(ch)
             \/ R_fread_ok(ch)
             \/ R_fread_eof(ch)
             \/ R_fread_fail(ch)
             \/ R_ppost(ch)
          /\ UNCHANGED <<opt, xdsp, mainvars, s_stop, sig, rbuff, tbuff, wthread, s_out_file>>
       \/ R_overrun(ch)

\* ------------------------------------------------------------------- main
\* What an API call can return.
Results == {0} \cup ErrCodes
\* One entry of the call log.
Call(op, strm, arg, tm) == Append(calls, [op |-> op, strm |-> strm, arg |-> arg, tm |-> tm])
\* A main that never takes the goto: C10 fails for it.
OnError_never_goto(r, next) == next
\* if (res) { log; if (stop_on_error) goto dev_close; }
OnError(r, next) == IF r # 0 /\ stop_on_error THEN "dev_close" ELSE next
\* History of a failed step: the first error a stop_on_error run aborts with.
NoteError(r) ==
    IF r # 0 /\ stop_on_error /\ hist.abort_res = 0
    THEN [hist EXCEPT !.abort_res = r, !.abort_calls = Len(calls')]
    ELSE hist
\* start_tx_delay = samples_tx
start_tx_delay == samples_tx

\* usdr_dmr_rate_set (inside if (!noinit))
M_rate ==
    /\ mpc = "rate"
    /\ IF noinit
       THEN /\ mpc' = "create_rx"
            /\ UNCHANGED <<res, calls, hist>>
       ELSE \E r \in Results :
            /\ res' = r
            /\ calls' = Call("rate_set", "-", "-", 0)
            /\ mpc' = OnError(r, "create_rx")
            /\ hist' = NoteError(r)
    /\ UNCHANGED <<retval, usds_rx, usds_tx, strms, rx_bufcnt, tx_bufcnt, i, b,
                   rx_buffers, tx_buffers, stm, thread_stop, sig, dev,
                   rbuff, tbuff, ring, wthread, rthread>>

\* usdr_dms_create_ex(dev, "/ll/srx/0", ...)
M_create_rx ==
    /\ mpc = "create_rx"
    /\ IF ~dorx
       THEN /\ mpc' = "create_tx"
            /\ UNCHANGED <<res, calls, hist, usds_rx, dev>>
       ELSE \E r \in Results :
            /\ res' = r
            /\ calls' = Call("create", "RX", "-", 0)
            /\ usds_rx' = IF r = 0 THEN "RX" ELSE usds_rx
            /\ dev' = IF r = 0 THEN [dev EXCEPT !.RX = "created"] ELSE dev
            /\ mpc' = OnError(r, "info_rx")
            /\ hist' = NoteError(r)
    /\ UNCHANGED <<retval, usds_tx, strms, rx_bufcnt, tx_bufcnt, i, b,
                   rx_buffers, tx_buffers, stm, thread_stop, sig,
                   rbuff, tbuff, ring, wthread, rthread>>

\* res = res ? res : usdr_dms_info(usds_rx, &snfo_rx)
M_info_rx ==
    /\ mpc = "info_rx"
    /\ \E r \in (IF res # 0 THEN {res} ELSE Results) :
       /\ res' = r
       /\ calls' = IF res # 0 THEN calls ELSE Call("info", "RX", "-", 0)
       /\ rx_bufcnt' = IF r # 0 THEN 0 ELSE opt.nch
       /\ mpc' = OnError(r, "create_tx")
       /\ hist' = NoteError(r)
    /\ UNCHANGED <<retval, usds_rx, usds_tx, strms, tx_bufcnt, i, b,
                   rx_buffers, tx_buffers, stm, thread_stop, sig, dev,
                   rbuff, tbuff, ring, wthread, rthread>>

\* usdr_dms_create(dev, "/ll/stx/0", ...)
M_create_tx ==
    /\ mpc = "create_tx"
    /\ IF ~dotx
       THEN /\ mpc' = "chk_chs"
            /\ UNCHANGED <<res, calls, hist, usds_tx, dev>>
       ELSE \E r \in Results :
            /\ res' = r
            /\ calls' = Call("create", "TX", "-", 0)
            /\ usds_tx' = IF r = 0 THEN "TX" ELSE usds_tx
            /\ dev' = IF r = 0 THEN [dev EXCEPT !.TX = "created"] ELSE dev
            /\ mpc' = OnError(r, "info_tx")
            /\ hist' = NoteError(r)
    /\ UNCHANGED <<retval, usds_rx, strms, rx_bufcnt, tx_bufcnt, i, b,
                   rx_buffers, tx_buffers, stm, thread_stop, sig,
                   rbuff, tbuff, ring, wthread, rthread>>

\* res = res ? res : usdr_dms_info(usds_tx, &snfo_tx)
M_info_tx ==
    /\ mpc = "info_tx"
    /\ \E r \in (IF res # 0 THEN {res} ELSE Results) :
       /\ res' = r
       /\ calls' = IF res # 0 THEN calls ELSE Call("info", "TX", "-", 0)
       /\ tx_bufcnt' = IF r # 0 THEN tx_bufcnt ELSE opt.nch
       /\ mpc' = OnError(r, "chk_chs")
       /\ hist' = NoteError(r)
    /\ UNCHANGED <<retval, usds_rx, usds_tx, strms, rx_bufcnt, i, b,
                   rx_buffers, tx_buffers, stm, thread_stop, sig, dev,
                   rbuff, tbuff, ring, wthread, rthread>>

\* if (rx_bufcnt > MAX_CHS || tx_bufcnt > MAX_CHS) { log; if (stop_on_error) goto dev_close; }
M_chk_chs ==
    /\ mpc = "chk_chs"
    /\ mpc' = IF (rx_bufcnt > MAX_CHS \/ tx_bufcnt > MAX_CHS) /\ stop_on_error
              THEN "dev_close" ELSE "mk_tx"
    /\ UNCHANGED <<res, retval, usds_rx, usds_tx, strms, rx_bufcnt, tx_bufcnt, i, b,
                   rx_buffers, tx_buffers, stm, thread_stop, sig, dev, calls, hist,
                   rbuff, tbuff, ring, wthread, rthread>>

\* The steps of main that index a per-channel array with b, and the channel
\* count their loop runs to.
TxIndexSteps == {"mk_tx", "cwait", "cpost", "join_tx"}
RxIndexSteps == {"mk_rx", "pwait", "ppost", "join_rx"}
IndexedCount ==
    IF mpc \in TxIndexSteps /\ dotx THEN tx_bufcnt
    ELSE IF mpc \in RxIndexSteps /\ dorx THEN rx_bufcnt
    ELSE 0
\* The array element the step is about to use exists.
IndexInBounds == b < IndexedCount => b < MAX_CHS

\* for (i < tx_bufcnt) { tbuff[i] = ring_buffer_create(256, ...); pthread_create(...) }
M_mk_tx ==
    /\ mpc = "mk_tx"
    /\ IndexInBounds
    /\ IF ~dotx \/ b >= tx_bufcnt
       THEN /\ mpc' = "mk_rx"
            /\ b' = 0
            /\ UNCHANGED <<res, tbuff, ring, rthread>>
       ELSE \E r \in {0, 11} :
            /\ res' = r
            /\ tbuff' = [tbuff EXCEPT ![b] = MaxCh + b]
            /\ ring' = [ring EXCEPT ![MaxCh + b] =
                          ring_buffer_create(RingSlots, pktbszie(opt.pktsyms_tx))]
            /\ rthread' = IF r = 0 THEN [rthread EXCEPT ![b].pc = "loop"] ELSE rthread
            /\ mpc' = IF r # 0 THEN "dev_close" ELSE "mk_tx"
            /\ b' = b + 1
    /\ UNCHANGED <<retval, usds_rx, usds_tx, strms, rx_bufcnt, tx_bufcnt, i,
                   rx_buffers, tx_buffers, stm, thread_stop, sig, dev, calls, hist,
                   rbuff, wthread>>

\* for (i < rx_bufcnt) { rbuff[i] = ring_buffer_create(256, ...); pthread_create(...) }
M_mk_rx ==
    /\ mpc = "mk_rx"
    /\ IndexInBounds
    /\ IF ~dorx \/ b >= rx_bufcnt
       THEN /\ mpc' = "signal"
            /\ b' = 0
            /\ UNCHANGED <<res, rbuff, ring, wthread>>
       ELSE \E r \in {0, 11} :
            /\ res' = r
            /\ rbuff' = [rbuff EXCEPT ![b] = b]
            /\ ring' = [ring EXCEPT ![b] =
                          ring_buffer_create(RingSlots, pktbszie(opt.samples_rx))]
            /\ wthread' = IF r = 0 THEN [wthread EXCEPT ![b].pc = "loop"] ELSE wthread
            /\ mpc' = IF r # 0 THEN "dev_close" ELSE "mk_rx"
            /\ b' = b + 1
    /\ UNCHANGED <<retval, usds_rx, usds_tx, strms, rx_bufcnt, tx_bufcnt, i,
                   rx_buffers, tx_buffers, stm, thread_stop, sig, dev, calls, hist,
                   tbuff, rthread>>

\* signal(SIGINT, on_stop)
M_signal ==
    /\ mpc = "signal"
    /\ sig' = TRUE
    /\ mpc' = "sync_off"
    /\ UNCHANGED <<res, retval, usds_rx, usds_tx, strms, rx_bufcnt, tx_bufcnt, i, b,
                   rx_buffers, tx_buffers, stm, thread_stop, dev, calls, hist,
                   rbuff, tbuff, ring, wthread, rthread>>

\* strms[1] = usds_tx; strms[0] = usds_rx; usdr_dms_sync(dev, "off", 2, strms)
M_sync_off ==
    /\ mpc = "sync_off"
    /\ strms' = [s \in {0, 1} |-> IF s = 0 THEN usds_rx ELSE usds_tx]
    /\ \E r \in Results :
       /\ res' = r
       /\ calls' = Call("sync", "-", "off", 0)
       /\ mpc' = OnError(r, "start_rx")
       /\ hist' = NoteError(r)
    /\ UNCHANGED <<retval, usds_rx, usds_tx, rx_bufcnt, tx_bufcnt, i, b,
                   rx_buffers, tx_buffers, stm, thread_stop, sig, dev,
                   rbuff, tbuff, ring, wthread, rthread>>

\* res = usds_rx ? usdr_dms_op(usds_rx, USDR_DMS_START, 0) : -EPROTONOSUPPORT
\* A main that goes on after a failed START of the RX stream whatever
\* stop_on_error says: C26 fails for it.
M_start_rx_error_ignored ==
    /\ mpc = "start_rx"
    /\ IF ~dorx
       THEN /\ mpc' = "start_tx"
            /\ UNCHANGED <<res, calls, hist, dev>>
       ELSE \E r \in (IF usds_rx = NULL THEN {EPROTONOSUPPORT} ELSE Results) :
            /\ res' = r
            /\ calls' = IF usds_rx = NULL THEN calls ELSE Call("op", "RX", "START", 0)
            /\ dev' = IF r = 0 THEN [dev EXCEPT !.RX = "started"] ELSE dev
            /\ mpc' = "start_tx"
            /\ UNCHANGED hist
    /\ UNCHANGED <<retval, usds_rx, usds_tx, strms, rx_bufcnt, tx_bufcnt, i, b,
                   rx_buffers, tx_buffers, stm, thread_stop, sig,
                   rbuff, tbuff, ring, wthread, rthread>>
M_start_rx ==
    /\ mpc = "start_rx"
    /\ IF ~dorx
       THEN /\ mpc' = "start_tx"
            /\ UNCHANGED <<res, calls, hist, dev>>
       ELSE \E r \in (IF usds_rx = NULL THEN {EPROTONOSUPPORT} ELSE Results) :
            /\ res' = r
            /\ calls' = IF usds_rx = NULL THEN calls ELSE Call("op", "RX", "START", 0)
            /\ dev' = IF r = 0 THEN [dev EXCEPT !.RX = "started"] ELSE dev
            /\ mpc' = OnError(r, "start_tx")
            /\ hist' = NoteError(r)
    /\ UNCHANGED <<retval, usds_rx, usds_tx, strms, rx_bufcnt, tx_bufcnt, i, b,
                   rx_buffers, tx_buffers, stm, thread_stop, sig,
                   rbuff, tbuff, ring, wthread, rthread>>

\* A main that never issues START on the TX stream: C8 fails for it.
M_start_tx_unissued ==
    /\ mpc = "start_tx"
    /\ mpc' = "sync_mode"
    /\ UNCHANGED <<res, calls, hist, dev>>
    /\ UNCHANGED <<retval, usds_rx, usds_tx, strms, rx_bufcnt, tx_bufcnt, i, b,
                   rx_buffers, tx_buffers, stm, thread_stop, sig,
                   rbuff, tbuff, ring, wthread, rthread>>
\* res = usds_tx ? usdr_dms_op(usds_tx, USDR_DMS_START, 0) : -EPROTONOSUPPORT
M_start_tx ==
    /\ mpc = "start_tx"
    /\ IF ~dotx
       THEN /\ mpc' = "sync_mode"
            /\ UNCHANGED <<res, calls, hist, dev>>
       ELSE \E r \in (IF usds_tx = NULL THEN {EPROTONOSUPPORT} ELSE Results) :
            /\ res' = r
            /\ calls' = IF usds_tx = NULL THEN calls ELSE Call("op", "TX", "START", 0)
            /\ dev' = IF r = 0 THEN [dev EXCEPT !.TX = "started"] ELSE dev
            /\ mpc' = OnError(r, "sync_mode")
            /\ hist' = NoteError(r)
    /\ UNCHANGED <<retval, usds_rx, usds_tx, strms, rx_bufcnt, tx_bufcnt, i, b,
                   rx_buffers, tx_buffers, stm, thread_stop, sig,
                   rbuff, tbuff, ring, wthread, rthread>>

\* usdr_dms_sync(dev, synctype, 2, strms)
M_sync_mode ==
    /\ mpc = "sync_mode"
    /\ \E r \in Results :
       /\ res' = r
       /\ calls' = Call("sync", "-", opt.synctype, 0)
       /\ mpc' = OnError(r, "antcfg")
       /\ hist' = NoteError(r)
    /\ UNCHANGED <<retval, usds_rx, usds_tx, strms, rx_bufcnt, tx_bufcnt, i, b,
                   rx_buffers, tx_buffers, stm, thread_stop, sig, dev,
                   rbuff, tbuff, ring, wthread, rthread>>

\* res = usdr_dme_set_uint(dev, "/dm/sdr/0/tfe/antcfg", antennacfg): logged only
M_antcfg ==
    /\ mpc = "antcfg"
    /\ \E r \in Results : res' = r
    /\ mpc' = "findsetv"
    /\ UNCHANGED <<retval, usds_rx, usds_tx, strms, rx_bufcnt, tx_bufcnt, i, b,
                   rx_buffers, tx_buffers, stm, thread_stop, sig, dev, calls, hist,
                   rbuff, tbuff, ring, wthread, rthread>>

\* usdr_dme_findsetv_uint (inside if (!noinit))
M_findsetv ==
    /\ mpc = "findsetv"
    /\ IF noinit
       THEN /\ mpc' = "chk_null"
            /\ UNCHANGED <<res, calls, hist>>
       ELSE \E r \in Results :
            /\ res' = r
            /\ calls' = Call("findsetv", "-", "-", 0)
            /\ mpc' = OnError(r, "chk_null")
            /\ hist' = NoteError(r)
    /\ UNCHANGED <<retval, usds_rx, usds_tx, strms, rx_bufcnt, tx_bufcnt, i, b,
                   rx_buffers, tx_buffers, stm, thread_stop, sig, dev,
                   rbuff, tbuff, ring, wthread, rthread>>

\* uint64_t stm = start_tx_delay; if (dotx && !usds_tx) goto dev_close; ...
M_chk_null ==
    /\ mpc = "chk_null"
    /\ stm' = start_tx_delay
    /\ mpc' = IF (dotx /\ usds_tx = NULL) \/ (dorx /\ usds_rx = NULL)
              THEN "dev_close" ELSE "loop"
    /\ i' = 0
    /\ UNCHANGED <<res, retval, usds_rx, usds_tx, strms, rx_bufcnt, tx_bufcnt, b,
                   rx_buffers, tx_buffers, thread_stop, sig, dev, calls, hist,
                   rbuff, tbuff, ring, wthread, rthread>>

\* buffers[b] = ring_buffer_at(ring, idx): taken whatever idx is
MainBuffer(idx) == ring_buffer_at(idx)
\* nots ? UINT64_MAX : stm
SendStamp == IF nots THEN UINT64_MAX ELSE stm
\* A timestamp that never advances: C9 fails for it.
NextStamp_stuck == stm
\* stm += samples_tx (uint64_t)
NextStamp == (stm + samples_tx) % (UINT64_MAX + 1)
\* Where an iteration starts, and where its RX half starts.
TxPhase == IF tx_bufcnt > 0 THEN "cwait" ELSE "send"
RxPhase == IF rx_bufcnt > 0 THEN "pwait" ELSE "recv"
\* After the TX half: the RX half (TX+RX mode) or the next iteration.
AfterTx == IF dorx THEN RxPhase ELSE "loop"
\* for (unsigned i = 0; !s_stop && (i < count); i++)
MainLoopCond == ~s_stop /\ i < count

\* An access past the end of a per-channel array (tbuff[b], rbuff[b],
\* rthread[b], wthread[b], buffers[b] with b >= MAX_CHS): the process may die,
\* or the access lands in other memory and the loop goes on with the next
\* index.
M_oob ==
    /\ mpc \in TxIndexSteps \cup RxIndexSteps
    /\ b < IndexedCount /\ b >= MAX_CHS
    /\ \/ /\ mpc' = "crashed"
          /\ UNCHANGED <<b, i, stm>>
       \/ /\ mpc \in {"mk_tx", "mk_rx", "join_tx", "join_rx"}
          /\ mpc' = mpc /\ b' = b + 1
          /\ UNCHANGED <<i, stm>>
       \/ /\ mpc \in {"cwait", "cpost", "pwait", "ppost"}
          /\ b' = IF b + 1 < IndexedCount THEN b + 1 ELSE 0
          /\ mpc' = IF b + 1 < IndexedCount THEN mpc
                    ELSE IF mpc = "cwait" THEN "send"
                    ELSE IF mpc = "cpost" THEN AfterTx
                    ELSE IF mpc = "pwait" THEN "recv"
                    ELSE "loop"
          /\ stm' = IF mpc = "cpost" /\ b + 1 >= IndexedCount THEN NextStamp ELSE stm
          /\ i' = IF b + 1 < IndexedCount THEN i
                  ELSE IF mpc = "ppost" \/ (mpc = "cpost" /\ ~dorx) THEN i + 1
                  ELSE i
    /\ UNCHANGED <<res, retval, usds_rx, usds_tx, strms, rx_bufcnt, tx_bufcnt,
                   rx_buffers, tx_buffers, thread_stop, sig, dev, calls, hist,
                   rbuff, tbuff, ring, wthread, rthread>>

M_loop ==
    /\ mpc = "loop"
    /\ mpc' = IF MainLoopCond THEN (IF dotx THEN TxPhase ELSE RxPhase) ELSE "stop"
    /\ b' = 0
    /\ UNCHANGED <<res, retval, usds_rx, usds_tx, strms, rx_bufcnt, tx_bufcnt, i,
                   rx_buffers, tx_buffers, stm, thread_stop, sig, dev, calls, hist,
                   rbuff, tbuff, ring, wthread, rthread>>

\* idx = ring_buffer_cwait(tbuff[b], 1000000); buffers[b] = ring_buffer_at(tbuff[b], idx)
M_cwait ==
    /\ mpc = "cwait"
    /\ IndexInBounds
    /\ LET r == ring[tbuff[b]]
           idx == ring_buffer_cwait_idx(r)
       IN /\ ring' = [ring EXCEPT ![tbuff[b]] = ring_buffer_cwait(r)]
          /\ tx_buffers' = [tx_buffers EXCEPT ![b] = MainBuffer(idx)]
          /\ hist' = IF idx = IDX_TIMEDOUT THEN Note("mtimeout", TRUE) ELSE hist
    /\ b' = IF b + 1 < tx_bufcnt THEN b + 1 ELSE 0
    /\ mpc' = IF b + 1 < tx_bufcnt THEN "cwait" ELSE "send"
    /\ UNCHANGED <<res, retval, usds_rx, usds_tx, strms, rx_bufcnt, tx_bufcnt, i,
                   rx_buffers, stm, thread_stop, sig, dev, calls,
                   rbuff, tbuff, wthread, rthread>>

\* res = usdr_dms_send(usds_tx, buffers, samples_tx, nots ? UINT64_MAX : stm, ...)
M_send ==
    /\ mpc = "send"
    /\ \E r \in Results :
       /\ res' = r
       /\ calls' = Call("send", "TX", "-", SendStamp)
       /\ mpc' = IF r # 0 THEN "stop" ELSE IF tx_bufcnt > 0 THEN "cpost" ELSE AfterTx
       /\ stm' = IF r = 0 /\ tx_bufcnt = 0 THEN NextStamp ELSE stm
       /\ i' = IF r = 0 /\ tx_bufcnt = 0 /\ ~dorx THEN i + 1 ELSE i
       /\ hist' = IF r = 0 THEN hist ELSE Note("txerr", TRUE)
    /\ UNCHANGED <<retval, usds_rx, usds_tx, strms, rx_bufcnt, tx_bufcnt, b,
                   rx_buffers, tx_buffers, thread_stop, sig, dev,
                   rbuff, tbuff, ring, wthread, rthread>>

\* for (b < tx_bufcnt) ring_buffer_cpost(tbuff[b]); after the last: stm += samples_tx
M_cpost ==
    /\ mpc = "cpost"
    /\ IndexInBounds
    /\ ring' = [ring EXCEPT ![tbuff[b]] = ring_buffer_cpost(@)]
    /\ b' = IF b + 1 < tx_bufcnt THEN b + 1 ELSE 0
    /\ mpc' = IF b + 1 < tx_bufcnt THEN "cpost" ELSE AfterTx
    /\ stm' = IF b + 1 < tx_bufcnt THEN stm ELSE NextStamp
    /\ i' = IF b + 1 < tx_bufcnt \/ dorx THEN i ELSE i + 1
    /\ UNCHANGED <<res, retval, usds_rx, usds_tx, strms, rx_bufcnt, tx_bufcnt,
                   rx_buffers, tx_buffers, thread_stop, sig, dev, calls, hist,
                   rbuff, tbuff, wthread, rthread>>

\* idx = ring_buffer_pwait(rbuff[b], 1000000); buffers[b] = ring_buffer_at(rbuff[b], idx)
M_pwait ==
    /\ mpc = "pwait"
    /\ IndexInBounds
    /\ LET r == ring[rbuff[b]]
           idx == ring_buffer_pwait_idx(r)
       IN /\ ring' = [ring EXCEPT ![rbuff[b]] = ring_buffer_pwait(r)]
          /\ rx_buffers' = [rx_buffers EXCEPT ![b] = MainBuffer(idx)]
          /\ hist' = IF idx = IDX_TIMEDOUT THEN Note("mtimeout", TRUE) ELSE hist
    /\ b' = IF b + 1 < rx_bufcnt THEN b + 1 ELSE 0
    /\ mpc' = IF b + 1 < rx_bufcnt THEN "pwait" ELSE "recv"
    /\ UNCHANGED <<res, retval, usds_rx, usds_tx, strms, rx_bufcnt, tx_bufcnt, i,
                   tx_buffers, stm, thread_stop, sig, dev, calls,
                   rbuff, tbuff, wthread, rthread>>

\* The rings after recv stored block n through buffers[]
RecvInto(n) ==
    [id \in RingIds |->
        IF \E c \in Chans : c < rx_bufcnt /\ rbuff[c] = id
        THEN Store(ring[id], rx_buffers[CHOOSE c \in Chans : c < rx_bufcnt /\ rbuff[c] = id], n)
        ELSE ring[id]]

\* res = usdr_dms_recv(usds_rx, buffers, 2250, NULL)
M_recv ==
    /\ mpc = "recv"
    /\ \E r \in Results :
       /\ res' = r
       /\ calls' = Call("recv", "RX", "-", 0)
       /\ ring' = IF r = 0 THEN RecvInto(hist.nrecv + 1) ELSE ring
       /\ hist' = IF r = 0 THEN Note("nrecv", hist.nrecv + 1) ELSE Note("rxerr", TRUE)
       /\ mpc' = IF r # 0 THEN "stop" ELSE IF rx_bufcnt > 0 THEN "ppost" ELSE "loop"
       /\ i' = IF r = 0 /\ rx_bufcnt = 0 THEN i + 1 ELSE i
    /\ UNCHANGED <<retval, usds_rx, usds_tx, strms, rx_bufcnt, tx_bufcnt, b,
                   rx_buffers, tx_buffers, stm, thread_stop, sig, dev,
                   rbuff, tbuff, wthread, rthread>>

\* for (b < rx_bufcnt) ring_buffer_ppost(rbuff[b]); after the last: i++
M_ppost ==
    /\ mpc = "ppost"
    /\ IndexInBounds
    /\ ring' = [ring EXCEPT ![rbuff[b]] = ring_buffer_ppost(@)]
    /\ hist' = [hist EXCEPT !.rxcommit[b] = Append(@, Load(ring[rbuff[b]], rx_buffers[b]))]
    /\ b' = IF b + 1 < rx_bufcnt THEN b + 1 ELSE 0
    /\ mpc' = IF b + 1 < rx_bufcnt THEN "ppost" ELSE "loop"
    /\ i' = IF b + 1 < rx_bufcnt THEN i ELSE i + 1
    /\ UNCHANGED <<res, retval, usds_rx, usds_tx, strms, rx_bufcnt, tx_bufcnt,
                   rx_buffers, tx_buffers, stm, thread_stop, sig, dev, calls,
                   rbuff, tbuff, wthread, rthread>>

\* send or recv dereferences an address outside the ring: the process may die
M_crash ==
    /\ \/ mpc = "send" /\ \E c \in Chans : c < tx_bufcnt /\ tx_buffers[c] = OOB
       \/ mpc = "recv" /\ \E c \in Chans : c < rx_bufcnt /\ rx_buffers[c] = OOB
    /\ mpc' = "crashed"
    /\ UNCHANGED <<res, retval, usds_rx, usds_tx, strms, rx_bufcnt, tx_bufcnt, i, b,
                   rx_buffers, tx_buffers, stm, thread_stop, sig, dev, calls, hist,
                   rbuff, tbuff, ring, wthread, rthread>>

\* stop: if (dorx) { res = usdr_dms_op(usds_rx, USDR_DMS_STOP, 0); if (res) goto dev_close; }
M_stop_rx ==
    /\ mpc = "stop"
    /\ IF ~dorx
       THEN /\ mpc' = "stop_tx"
            /\ UNCHANGED <<res, calls, dev>>
       ELSE \E r \in Results :
            /\ res' = r
            /\ calls' = Call("op", "RX", "STOP", 0)
            /\ dev' = IF r = 0 THEN [dev EXCEPT !.RX = "stopped"] ELSE dev
            /\ mpc' = IF r # 0 THEN "dev_close" ELSE "stop_tx"
    /\ UNCHANGED <<retval, usds_rx, usds_tx, strms, rx_bufcnt, tx_bufcnt, i, b,
                   rx_buffers, tx_buffers, stm, thread_stop, sig, hist,
                   rbuff, tbuff, ring, wthread, rthread>>

\* if (dotx) { res = usdr_dms_op(usds_tx, USDR_DMS_STOP, 0); if (res) goto dev_close; }
M_stop_tx ==
    /\ mpc = "stop_tx"
    /\ IF ~dotx
       THEN /\ mpc' = "set_stop"
            /\ UNCHANGED <<res, calls, dev>>
       ELSE \E r \in Results :
            /\ res' = r
            /\ calls' = Call("op", "TX", "STOP", 0)
            /\ dev' = IF r = 0 THEN [dev EXCEPT !.TX = "stopped"] ELSE dev
            /\ mpc' = IF r # 0 THEN "dev_close" ELSE "set_stop"
    /\ UNCHANGED <<retval, usds_rx, usds_tx, strms, rx_bufcnt, tx_bufcnt, i, b,
                   rx_buffers, tx_buffers, stm, thread_stop, sig, hist,
                   rbuff, tbuff, ring, wthread, rthread>>

\* thread_stop = true
M_thread_stop ==
    /\ mpc = "set_stop"
    /\ thread_stop' = TRUE
    /\ mpc' = "dbg"
    /\ UNCHANGED <<res, retval, usds_rx, usds_tx, strms, rx_bufcnt, tx_bufcnt, i, b,
                   rx_buffers, tx_buffers, stm, sig, dev, calls, hist,
                   rbuff, tbuff, ring, wthread, rthread>>

\* res = usdr_dme_get_uint(dev, "/dm/debug/all", temp); if (res) goto dev_close
M_dbg ==
    /\ mpc = "dbg"
    /\ \E r \in Results :
       /\ res' = r
       /\ mpc' = IF r # 0 THEN "dev_close" ELSE "join_rx"
    /\ b' = 0
    /\ UNCHANGED <<retval, usds_rx, usds_tx, strms, rx_bufcnt, tx_bufcnt, i,
                   rx_buffers, tx_buffers, stm, thread_stop, sig, dev, calls, hist,
                   rbuff, tbuff, ring, wthread, rthread>>

\* if (dorx) for (i < rx_bufcnt) pthread_join(wthread[i], NULL)
M_join_rx ==
    /\ mpc = "join_rx"
    /\ IndexInBounds
    /\ IF ~dorx \/ b >= rx_bufcnt
       THEN /\ mpc' = "join_tx"
            /\ b' = 0
            /\ UNCHANGED hist
       ELSE /\ wthread[b].pc = "done"
            /\ hist' = Note("wjoined", hist.wjoined \cup {b})
            /\ b' = b + 1
            /\ mpc' = "join_rx"
    /\ UNCHANGED <<res, retval, usds_rx, usds_tx, strms, rx_bufcnt, tx_bufcnt, i,
                   rx_buffers, tx_buffers, stm, thread_stop, sig, dev, calls,
                   rbuff, tbuff, ring, wthread, rthread>>

\* if (dotx) for (i < tx_bufcnt) pthread_join(rthread[i], NULL)
M_join_tx ==
    /\ mpc = "join_tx"
    /\ IndexInBounds
    /\ IF ~dotx \/ b >= tx_bufcnt
       THEN /\ mpc' = "dev_close"
            /\ b' = 0
            /\ UNCHANGED hist
       ELSE /\ rthread[b].pc = "done"
            /\ hist' = Note("rjoined", hist.rjoined \cup {b})
            /\ b' = b + 1
            /\ mpc' = "join_tx"
    /\ UNCHANGED <<res, retval, usds_rx, usds_tx, strms, rx_bufcnt, tx_bufcnt, i,
                   rx_buffers, tx_buffers, stm, thread_stop, sig, dev, calls,
                   rbuff, tbuff, ring, wthread, rthread>>

\* The destroy calls of dev_close, in order: strms[1], then strms[0].
DestroyCalls ==
    (IF strms[1] # NULL
     THEN <<[op |-> "destroy", strm |-> strms[1], arg |-> "-", tm |-> 0]>> ELSE <<>>)
    \o (IF strms[0] # NULL
        THEN <<[op |-> "destroy", strm |-> strms[0], arg |-> "-", tm |-> 0]>> ELSE <<>>)

\* dev_close: destroy the streams of strms[], close the device, return res
M_dev_close ==
    /\ mpc = "dev_close"
    /\ calls' = calls \o DestroyCalls
    /\ dev' = [s \in {"RX", "TX"} |->
                 IF \E k \in {0, 1} : strms[k] = s THEN "destroyed" ELSE dev[s]]
    /\ retval' = res
    /\ mpc' = "returned"
    /\ UNCHANGED <<res, usds_rx, usds_tx, strms, rx_bufcnt, tx_bufcnt, i, b,
                   rx_buffers, tx_buffers, stm, thread_stop, sig, hist,
                   rbuff, tbuff, ring, wthread, rthread>>

main ==
    /\ Alive
    /\ \/ M_rate \/ M_create_rx \/ M_info_rx \/ M_create_tx \/ M_info_tx
       \/ M_chk_chs \/ M_oob \/ M_mk_tx \/ M_mk_rx \/ M_signal \/ M_sync_off \/ M_start_rx \/ M_start_tx
       \/ M_sync_mode \/ M_antcfg \/ M_findsetv \/ M_chk_null
       \/ M_loop \/ M_cwait \/ M_send \/ M_cpost
       \/ M_pwait \/ M_recv \/ M_ppost \/ M_crash
       \/ M_stop_rx \/ M_stop_tx \/ M_thread_stop \/ M_dbg
       \/ M_join_rx \/ M_join_tx \/ M_dev_close
    /\ UNCHANGED <<opt, xdsp, s_stop, s_out_file, in_pos>>

\* on_stop(SIGINT): if (s_stop) exit(1); s_stop = true;
\* The signal arrives in the runs whose user sends it (opt.sigint).
\* exit(1) ends every thread and frees the rings: only what is outside the
\* process (files, the device, the call log) is kept.
on_stop ==
    /\ Alive
    /\ sig
    /\ opt.sigint
    /\ IF s_stop
       THEN /\ mpc' = "exited"
            /\ retval' = 1
            /\ wthread' = [c \in Chans |-> [pc |-> "none", idx |-> IDX_TIMEDOUT]]
            /\ rthread' = [c \in Chans |-> [pc |-> "none", idx |-> IDX_TIMEDOUT, n |-> 0]]
            /\ ring' = [id \in RingIds |-> NoRing]
            /\ rx_buffers' = [c \in Chans |-> NOBUF]
            /\ tx_buffers' = [c \in Chans |-> NOBUF]
            /\ i' = 0
            /\ b' = 0
            /\ res' = 0
            /\ stm' = 0
            /\ UNCHANGED s_stop
       ELSE /\ s_stop' = TRUE
            /\ UNCHANGED <<mpc, retval, wthread, rthread, ring, rx_buffers, tx_buffers,
                           i, b, res, stm>>
    /\ UNCHANGED <<opt, xdsp, usds_rx, usds_tx, strms, rx_bufcnt, tx_bufcnt,
                   thread_stop, sig, rbuff, tbuff, s_out_file, in_pos, calls, dev, hist>>

\* ------------------------------- converter selection (conv_f32_i12_2.c)
\* generic_opts_t: the capability tiers, ordered; a tier includes the ones below.
OPT_GENERIC == 0
OPT_AVX2 == 2
\* The highest tier a caller passes or a CPU reports.
MaxCap == 3
Caps == OPT_GENERIC..MaxCap
\* The cached capability before the first probe.
NotProbed == -1
\* conv_function_t values: the null pointer and the functions of this file.
NULL_FN == 0
tr_conv_f32_i12_generic == 1
tr_conv_f32_i12_avx2 == 2
\* The name the selection macros report for a function (#fn).
FnName(fn) ==
    IF fn = tr_conv_f32_i12_generic THEN "tr_conv_f32_i12_generic"
    ELSE IF fn = tr_conv_f32_i12_avx2 THEN "tr_conv_f32_i12_avx2"
    ELSE "?"
\* The tier a function's instructions need: target("avx2") for the AVX2 one.
Requires(fn) == IF fn = tr_conv_f32_i12_avx2 THEN OPT_AVX2 ELSE OPT_GENERIC
\* The functions compiled into this build (#ifdef WVLT_AVX).
Built == {tr_conv_f32_i12_generic} \cup (IF xdsp.wvlt_avx THEN {tr_conv_f32_i12_avx2} ELSE {})

\* The locals fn and fname before the first macro: not initialised.
NoSelection == [fn |-> NULL_FN, fname |-> "?"]
\* SELECT_GENERIC_FN(a, b, fn, cap): a = &fn; b = #fn, whatever cap is.
SELECT_GENERIC_FN(l, fn, cap) == [fn |-> fn, fname |-> FnName(fn)]
\* SELECT_AVX2_FN(a, b, fn, cap): in a WVLT_AVX build, a = &fn; b = #fn when
\* cap reaches OPT_AVX2; expands to nothing in the other builds.
SELECT_AVX2_FN(l, fn, cap) ==
    IF xdsp.wvlt_avx /\ cap >= OPT_AVX2 THEN [fn |-> fn, fname |-> FnName(fn)] ELSE l

\* A selector with the two macros in the other order: C21 fails for it.
conv_get_f32_i12_c_swapped(cpu_cap, sfunc) ==
    LET l1 == SELECT_AVX2_FN(NoSelection, tr_conv_f32_i12_avx2, cpu_cap)
        l2 == SELECT_GENERIC_FN(l1, tr_conv_f32_i12_generic, cpu_cap)
    IN [fn |-> l2.fn, out |-> IF sfunc THEN l2.fname ELSE "-"]
\* A selector whose fn and fname are statics the generic macro sets only
\* once: C22 fails for it.
conv_get_f32_i12_c_static(cpu_cap, sfunc) ==
    LET last == xdsp.log[Len(xdsp.log)]
        l1 == IF xdsp.log = <<>>
              THEN SELECT_GENERIC_FN(NoSelection, tr_conv_f32_i12_generic, cpu_cap)
              ELSE [fn |-> last.fn, fname |-> FnName(last.fn)]
        l2 == SELECT_AVX2_FN(l1, tr_conv_f32_i12_avx2, cpu_cap)
    IN [fn |-> l2.fn, out |-> IF sfunc THEN l2.fname ELSE "-"]
\* conv_get_f32_i12_c(cpu_cap, sfunc): the function returned and what is
\* written through sfunc ("-" when sfunc is NULL).
conv_get_f32_i12_c(cpu_cap, sfunc) ==
    LET l1 == SELECT_GENERIC_FN(NoSelection, tr_conv_f32_i12_generic, cpu_cap)
        l2 == SELECT_AVX2_FN(l1, tr_conv_f32_i12_avx2, cpu_cap)
    IN [fn |-> l2.fn, out |-> IF sfunc THEN l2.fname ELSE "-"]

\* cpu_vcap_get(): the capability of the executing CPU, probed on the first
\* call and cached: the cache after the call.
cpu_vcap_get == IF xdsp.vcap = NotProbed THEN xdsp.cpu ELSE xdsp.vcap

\* The registry of a process that selects no converter.
NoXdsp == [wvlt_avx |-> FALSE, cpu |-> OPT_GENERIC, vcap |-> NotProbed, log |-> <<>>]

\* ---------------------------------------------------------- specification
\* Every option record.
\* Length of a trailing partial block of the TX file, in bytes.
TailBytes == 100
AllOptions ==
    [dotx : BOOLEAN, dorx : BOOLEAN, nots : BOOLEAN, stop_on_error : BOOLEAN,
     noinit : BOOLEAN, tx_from_file : BOOLEAN, tx_file_cycle : BOOLEAN,
     count : 1..MaxCount, samples_tx : {DEFAULT_SAMPLES, ALT_SAMPLES},
     samples_rx : {DEFAULT_SAMPLES}, nch : 1..(MaxCh + 1),
     fblocks : 0..MaxFileBlocks, synctype : {"all"}, sigint : BOOLEAN,
     pktsyms_tx : {DEFAULT_SAMPLES, ALT_SAMPLES},
     explicit_count : BOOLEAN, ftail : {0, TailBytes}]
\* Options that have no effect in the mode they are given in stay at their defaults.
WellFormed(o) ==
    /\ o.dotx \/ o.dorx
    /\ ~o.dotx => ~o.nots /\ ~o.tx_from_file /\ o.samples_tx = DEFAULT_SAMPLES
    /\ ~o.dotx => o.pktsyms_tx = DEFAULT_SAMPLES
    /\ ~o.tx_from_file => ~o.tx_file_cycle /\ o.fblocks = 0
    /\ o.nots => o.samples_tx = DEFAULT_SAMPLES
Defaults(o) == o.stop_on_error /\ ~o.noinit
\* RX only: every block count on one channel, shorter runs on more channels.
RxRuns(o) ==
    /\ o.dorx /\ ~o.dotx /\ Defaults(o)
    /\ \/ o.nch = 1
       \/ o.count < MaxCount - 1 /\ ~o.sigint
       \/ o.count = MaxCount - 1 /\ ~o.sigint /\ o.nch = 2
\* TX only from the sine generator: timestamps on and off, two block sizes.
TxRuns(o) ==
    /\ o.dotx /\ ~o.dorx /\ Defaults(o) /\ ~o.tx_from_file /\ o.nch = 1
    /\ o.count < MaxCount
    /\ o.nots \/ o.samples_tx = ALT_SAMPLES => o.count = MaxCount - 2 /\ ~o.sigint
\* TX only from a file, cycled or not.
FileRuns(o) ==
    /\ o.dotx /\ ~o.dorx /\ Defaults(o) /\ o.tx_from_file /\ o.nch = 1
    /\ ~o.nots /\ o.samples_tx = DEFAULT_SAMPLES /\ o.count < MaxCount - 1
    /\ o.fblocks < MaxFileBlocks - 1 /\ ~o.sigint
\* TX and RX.
DuplexRuns(o) ==
    /\ o.dotx /\ o.dorx /\ Defaults(o) /\ ~o.tx_from_file /\ o.nch = 1
    /\ ~o.nots /\ o.samples_tx = DEFAULT_SAMPLES /\ o.count < MaxCount - 1
    /\ ~o.sigint
\* One-block runs of every mode with -z (continue on error) and, RX only, -X.
SetupRuns(o) ==
    /\ o.count = 1 /\ o.nch = 1 /\ ~o.tx_from_file
    /\ ~o.nots /\ o.samples_tx = DEFAULT_SAMPLES
    /\ o.noinit => ~o.dotx
    /\ o.sigint => o.stop_on_error
\* TX only from the sine generator on a device whose TX stream settles on a
\* packet size other than the samples_tx asked for.
GeometryRuns(o) ==
    /\ TxRuns(o) /\ ~o.nots /\ o.count = MaxCount - 2 /\ ~o.sigint
\* TX only from a file without -c: the block count comes from the file's size.
FileCountRuns(o) ==
    /\ FileRuns(o) /\ ~o.tx_file_cycle /\ ~o.explicit_count /\ o.count = 1
\* One-block RX runs on a device whose stream reports one channel more than
\* MAX_CHS, with and without -z.
ChannelRuns(o) ==
    /\ o.nch = MaxCh + 1 /\ o.count = 1 /\ o.dorx /\ ~o.dotx
    /\ ~o.noinit /\ ~o.tx_from_file /\ ~o.nots /\ o.samples_tx = DEFAULT_SAMPLES
    /\ ~o.sigint
\* The option sets a session is run with.
Options ==
    {o \in AllOptions :
        /\ WellFormed(o)
        /\ o.nch <= MaxCh \/ ChannelRuns(o)
        /\ (o.explicit_count /\ o.ftail = 0) \/ FileCountRuns(o)
        /\ (o.dotx => o.pktsyms_tx = o.samples_tx) \/ GeometryRuns(o)
        /\ RxRuns(o) \/ TxRuns(o) \/ FileRuns(o) \/ DuplexRuns(o) \/ SetupRuns(o)
           \/ ChannelRuns(o)}

NoHist ==
    [ioerr |-> FALSE, eof |-> FALSE, mtimeout |-> FALSE, rxerr |-> FALSE, txerr |-> FALSE,
     nrecv |-> 0, rxcommit |-> [c \in Chans |-> <<>>],
     txcommit |-> [c \in Chans |-> <<>>],
     abort_res |-> 0, abort_calls |-> 0, wjoined |-> {}, rjoined |-> {}]

Init ==
    /\ opt \in Options
    /\ mpc = "rate"
    /\ res = 0
    /\ retval = 0
    /\ usds_rx = NULL
    /\ usds_tx = NULL
    /\ strms = [s \in {0, 1} |-> NULL]
    /\ rx_bufcnt = 0
    /\ tx_bufcnt = 0
    /\ i = 0
    /\ b = 0
    /\ rx_buffers = [c \in Chans |-> NOBUF]
    /\ tx_buffers = [c \in Chans |-> NOBUF]
    /\ stm = 0
    /\ s_stop = FALSE
    /\ thread_stop = FALSE
    /\ sig = FALSE
    /\ rbuff = [c \in Chans |-> NULL_RING]
    /\ tbuff = [c \in Chans |-> NULL_RING]
    /\ ring = [id \in RingIds |-> NoRing]
    /\ wthread = [c \in Chans |-> [pc |-> "none", idx |-> IDX_TIMEDOUT]]
    /\ rthread = [c \in Chans |-> [pc |-> "none", idx |-> IDX_TIMEDOUT, n |-> 0]]
    /\ s_out_file = [c \in Chans |-> <<>>]
    /\ in_pos = 0
    /\ calls = <<>>
    /\ dev = [s \in {"RX", "TX"} |-> "none"]
    /\ hist = NoHist
    /\ xdsp = NoXdsp

Next ==
    \/ main
    \/ \E ch \in Chans : disk_write_thread(ch)
    \/ \E ch \in Chans : tx_thread(ch)
    \/ on_stop

Spec == Init /\ [][Next]_vars

\* The runs in which SIGINT may arrive, every thread scheduled again and again:
\* each blocking call of the threads has a timeout, the signal is the user's.
InitFair == Init /\ opt.sigint
Fairness ==
    /\ WF_vars(main)
    /\ \A ch \in Chans : WF_vars(disk_write_thread(ch)) /\ WF_vars(tx_thread(ch))
SpecFair == InitFair /\ [][Next]_vars /\ Fairness

\* ------------------------------------------------------- one ring, two ends
\* A disk_read_thread commits the blocks of a file into a ring of 1..RingSlots
\* slots and a disk_write_thread takes them out of the same ring, while main
\* runs its shutdown from thread_stop = true on.
RingOptions ==
    {o \in AllOptions :
        /\ o.dotx /\ o.dorx /\ Defaults(o) /\ o.tx_from_file /\ ~o.tx_file_cycle
        /\ ~o.nots /\ o.samples_tx = DEFAULT_SAMPLES /\ o.nch = 1 /\ o.count = 1
        /\ o.fblocks >= 1 /\ ~o.sigint /\ o.pktsyms_tx = o.samples_tx
        /\ o.explicit_count /\ o.ftail = 0}

InitRing ==
    /\ opt \in RingOptions
    /\ mpc = "set_stop"
    /\ res = 0
    /\ retval = 0
    /\ usds_rx = NULL
    /\ usds_tx = NULL
    /\ strms = [s \in {0, 1} |-> NULL]
    /\ rx_bufcnt = 1
    /\ tx_bufcnt = 1
    /\ i = 0
    /\ b = 0
    /\ rx_buffers = [c \in Chans |-> NOBUF]
    /\ tx_buffers = [c \in Chans |-> NOBUF]
    /\ stm = 0
    /\ s_stop = FALSE
    /\ thread_stop = FALSE
    /\ sig = FALSE
    /\ rbuff = [c \in Chans |-> IF c = 0 THEN 0 ELSE NULL_RING]
    /\ tbuff = [c \in Chans |-> IF c = 0 THEN 0 ELSE NULL_RING]
    /\ \E k \in 1..RingSlots :
          ring = [id \in RingIds |->
                    IF id = 0 THEN ring_buffer_create(k, pktbszie(DEFAULT_SAMPLES))
                    ELSE NoRing]
    /\ wthread = [c \in Chans |->
                    [pc |-> IF c = 0 THEN "loop" ELSE "none", idx |-> IDX_TIMEDOUT]]
    /\ rthread = [c \in Chans |->
                    [pc |-> IF c = 0 THEN "loop" ELSE "none", idx |-> IDX_TIMEDOUT, n |-> 0]]
    /\ s_out_file = [c \in Chans |-> <<>>]
    /\ in_pos = 0
    /\ calls = <<>>
    /\ dev = [s \in {"RX", "TX"} |-> "none"]
    /\ hist = NoHist
    /\ xdsp = NoXdsp

NextRing ==
    \/ main
    \/ disk_write_thread(0)
    \/ tx_thread(0)

SpecRing == InitRing /\ [][NextRing]_vars

\* ------------------------------------------- stream handles (dm_stream.c)
\* A client of the stream interface issues up to MaxCalls calls on the two
\* stream handles of a device.
MaxCalls == 4
\* Status codes of the device's stream operations.
InvalidState == -22
AlreadyDestroyed == -2
Streams == {"RX", "TX"}
Commands == {"START", "STOP"}
\* The streams the device holds.
LiveStreams == {s \in Streams : dev[s] \in {"created", "started", "stopped"}}

\* dev->unregister_stream(dev, h) on a handle in state st: status and state after.
unregister_stream(st) ==
    IF st = "destroyed"
    THEN [res |-> AlreadyDestroyed, st |-> st]
    ELSE [res |-> 0, st |-> "destroyed"]

\* h->ops->op(h, command, tm) on a handle in state st, with the hardware
\* answering fault to a START: status and state after.
ops_op(st, command, fault) ==
    IF command = "START"
    THEN IF st = "started" THEN [res |-> InvalidState, st |-> st]
         ELSE IF fault # 0 THEN [res |-> fault, st |-> st]
         ELSE [res |-> 0, st |-> "started"]
    ELSE IF st # "started" THEN [res |-> InvalidState, st |-> st]
         ELSE [res |-> 0, st |-> "stopped"]

\* What a call on the stream interface leaves alone.
ClientFrame ==
    UNCHANGED <<opt, xdsp, mpc, retval, strms, rx_bufcnt, tx_bufcnt, i, b, rx_buffers,
                tx_buffers, stm, s_stop, thread_stop, sig, rbuff, tbuff, ring,
                wthread, rthread, s_out_file, in_pos, hist>>

\* usdr_dms_create_ex: return dev->create_stream(..., outu)
usdr_dms_create_ex(s) ==
    /\ mpc = "client" /\ Len(calls) < MaxCalls
    /\ dev[s] = "none"
    /\ \E r \in Results :
          /\ res' = r
          /\ dev' = IF r = 0 THEN [dev EXCEPT ![s] = "created"] ELSE dev
          /\ usds_rx' = IF r = 0 /\ s = "RX" THEN s ELSE usds_rx
          /\ usds_tx' = IF r = 0 /\ s = "TX" THEN s ELSE usds_tx
    /\ calls' = Call("create", s, "-", 0)
    /\ ClientFrame

\* A wrapper that passes START whatever the command: C20 fails for it.
usdr_dms_op_always_start(s, command) ==
    /\ mpc = "client" /\ Len(calls) < MaxCalls
    /\ dev[s] \in {"created", "started", "stopped"}
    /\ \E fault \in Results :
          LET o == ops_op(dev[s], "START", fault)
          IN /\ res' = o.res
             /\ dev' = [dev EXCEPT ![s] = o.st]
    /\ calls' = Call("op", s, command, 0)
    /\ UNCHANGED <<usds_rx, usds_tx>>
    /\ ClientFrame
\* usdr_dms_op: return h->ops->op(h, command, tm)
usdr_dms_op(s, command) ==
    /\ mpc = "client" /\ Len(calls) < MaxCalls
    /\ dev[s] \in {"created", "started", "stopped"}
    /\ \E fault \in Results :
          LET o == ops_op(dev[s], command, fault)
          IN /\ res' = o.res
             /\ dev' = [dev EXCEPT ![s] = o.st]
    /\ calls' = Call("op", s, command, 0)
    /\ UNCHANGED <<usds_rx, usds_tx>>
    /\ ClientFrame

\* A wrapper that returns 0 whatever the device answers: C19 fails for it.
usdr_dms_destroy_result_dropped(s) ==
    /\ mpc = "client" /\ Len(calls) < MaxCalls
    /\ dev[s] # "none"
    /\ LET o == unregister_stream(dev[s])
       IN /\ res' = 0
          /\ dev' = [dev EXCEPT ![s] = o.st]
    /\ calls' = Call("destroy", s, "-", 0)
    /\ UNCHANGED <<usds_rx, usds_tx>>
    /\ ClientFrame
\* usdr_dms_destroy: return h->dev->unregister_stream(h->dev, h)
usdr_dms_destroy(s) ==
    /\ mpc = "client" /\ Len(calls) < MaxCalls
    /\ dev[s] # "none"
    /\ LET o == unregister_stream(dev[s])
       IN /\ res' = o.res
          /\ dev' = [dev EXCEPT ![s] = o.st]
    /\ calls' = Call("destroy", s, "-", 0)
    /\ UNCHANGED <<usds_rx, usds_tx>>
    /\ ClientFrame

InitStream ==
    /\ opt \in {o \in Options : o.dotx /\ o.dorx /\ DuplexRuns(o) /\ o.count = 1}
    /\ mpc = "client"
    /\ res = 0
    /\ retval = 0
    /\ usds_rx = NULL
    /\ usds_tx = NULL
    /\ strms = [s \in {0, 1} |-> NULL]
    /\ rx_bufcnt = 0
    /\ tx_bufcnt = 0
    /\ i = 0
    /\ b = 0
    /\ rx_buffers = [c \in Chans |-> NOBUF]
    /\ tx_buffers = [c \in Chans |-> NOBUF]
    /\ stm = 0
    /\ s_stop = FALSE
    /\ thread_stop = FALSE
    /\ sig = FALSE
    /\ rbuff = [c \in Chans |-> NULL_RING]
    /\ tbuff = [c \in Chans |-> NULL_RING]
    /\ ring = [id \in RingIds |-> NoRing]
    /\ wthread = [c \in Chans |-> [pc |-> "none", idx |-> IDX_TIMEDOUT]]
    /\ rthread = [c \in Chans |-> [pc |-> "none", idx |-> IDX_TIMEDOUT, n |-> 0]]
    /\ s_out_file = [c \in Chans |-> <<>>]
    /\ in_pos = 0
    /\ calls = <<>>
    /\ dev = [s \in Streams |-> "none"]
    /\ hist = NoHist
    /\ xdsp = NoXdsp

NextStream ==
    \/ \E s \in Streams : usdr_dms_create_ex(s)
    \/ \E s \in Streams, command \in Commands : usdr_dms_op(s, command)
    \/ \E s \in Streams : usdr_dms_destroy(s)

SpecStream == InitStream /\ [][NextStream]_vars

\* --------------------------------- converter selection (conv_f32_i12_2.c)
\* A process asks for the f32 -> i12 converter up to MaxSelects times, with
\* forced capability values and with the capability of its own CPU.
MaxSelects == 3

\* What a selection leaves alone.
SelectFrame ==
    UNCHANGED <<opt, mpc, res, retval, usds_rx, usds_tx, strms, rx_bufcnt, tx_bufcnt,
                i, b, rx_buffers, tx_buffers, stm, s_stop, thread_stop, sig, rbuff,
                tbuff, ring, wthread, rthread, s_out_file, in_pos, calls, dev, hist>>

\* A call fn = conv_get_f32_i12_c(cpu_cap, sfunc), sfunc NULL or not.
X_conv_get_f32_i12_c(cpu_cap, sfunc) ==
    /\ mpc = "xdsp" /\ Len(xdsp.log) < MaxSelects
    /\ LET r == conv_get_f32_i12_c(cpu_cap, sfunc)
       IN xdsp' = [xdsp EXCEPT !.log = Append(@,
                     [op |-> "conv_get_f32_i12_c", cap |-> cpu_cap, sfunc |-> sfunc,
                      fn |-> r.fn, out |-> r.out])]
    /\ SelectFrame

\* A call fn = conv_get_f32_i12(): conv_get_f32_i12_c(cpu_vcap_get(), NULL)
X_conv_get_f32_i12 ==
    /\ mpc = "xdsp" /\ Len(xdsp.log) < MaxSelects
    /\ LET cap == cpu_vcap_get
           r == conv_get_f32_i12_c(cap, FALSE)
       IN xdsp' = [xdsp EXCEPT !.vcap = cap, !.log = Append(@,
                     [op |-> "conv_get_f32_i12", cap |-> cap, sfunc |-> FALSE,
                      fn |-> r.fn, out |-> r.out])]
    /\ SelectFrame

InitConv ==
    /\ opt \in {o \in Options : o.dotx /\ o.dorx /\ DuplexRuns(o) /\ o.count = 1}
    /\ mpc = "xdsp"
    /\ res = 0
    /\ retval = 0
    /\ usds_rx = NULL
    /\ usds_tx = NULL
    /\ strms = [s \in {0, 1} |-> NULL]
    /\ rx_bufcnt = 0
    /\ tx_bufcnt = 0
    /\ i = 0
    /\ b = 0
    /\ rx_buffers = [c \in Chans |-> NOBUF]
    /\ tx_buffers = [c \in Chans |-> NOBUF]
    /\ stm = 0
    /\ s_stop = FALSE
    /\ thread_stop = FALSE
    /\ sig = FALSE
    /\ rbuff = [c \in Chans |-> NULL_RING]
    /\ tbuff = [c \in Chans |-> NULL_RING]
    /\ ring = [id \in RingIds |-> NoRing]
    /\ wthread = [c \in Chans |-> [pc |-> "none", idx |-> IDX_TIMEDOUT]]
    /\ rthread = [c \in Chans |-> [pc |-> "none", idx |-> IDX_TIMEDOUT, n |-> 0]]
    /\ s_out_file = [c \in Chans |-> <<>>]
    /\ in_pos = 0
    /\ calls = <<>>
    /\ dev = [s \in Streams |-> "none"]
    /\ hist = NoHist
    /\ xdsp \in [wvlt_avx : BOOLEAN, cpu : Caps, vcap : {NotProbed}, log : {<<>>}]

NextConv ==
    \/ \E cpu_cap \in Caps, sfunc \in BOOLEAN : X_conv_get_f32_i12_c(cpu_cap, sfunc)
    \/ X_conv_get_f32_i12

SpecConv == InitConv /\ [][NextConv]_vars

\* ------------------------------------------------------------ ring views
\* The rings main has allocated.
Allocated == {id \in RingIds : ring[id].items > 0}
\* a - b when positive: slots between two cursors.
Held(a, bb) == IF a > bb THEN a - bb ELSE 0
\* Slots outstanding: reserved by the producer, committed, reserved by the consumer.
Occupancy(r) == Held(r.pres, r.pcom) + Held(r.pcom, r.cres) + Held(r.cres, r.ccom)
\* The cursors are in order: every slot is in exactly one of the four states.
OneStatePerSlot(r) ==
    /\ r.ccom <= r.cres
    /\ r.cres <= r.pcom
    /\ r.pcom <= r.pres
    /\ r.pres <= r.ccom + r.items
\* Positions whose block is committed and not yet released by the consumer.
Unread(r) == {p \in 0..(r.pcom + r.pres) : r.ccom <= p /\ p < r.pcom}
\* A RX session with nothing induced: no timeout of main, no recv error, no
\* interrupt, no I/O failure.
QuietRx == dorx /\ ~dotx /\ ~hist.mtimeout /\ ~hist.rxerr /\ ~hist.ioerr /\ ~s_stop

\* ---------------------------------------------------------------- claims
\* C1 (as claimed): in a quiet RX-only session, once main has joined the
\* disk_write_thread of a channel, that thread has written exactly count
\* blocks to the channel's file, in the order main committed them.
C1_RxEndToEnd ==
    \A c \in Chans :
        (QuietRx /\ c \in hist.wjoined)
            => /\ Len(hist.rxcommit[c]) = count
               /\ s_out_file[c] = hist.rxcommit[c]

C3_RecvBufferNotUnread ==
    mpc = "recv" =>
        \A c \in Chans :
            (c < rx_bufcnt /\ rx_buffers[c] \in 0..(RingSlots - 1))
                => \A p \in Unread(ring[rbuff[c]]) :
                       p % RingSlots # rx_buffers[c]

\* C4 (as claimed): every slot of every ring is in exactly one state, and the
\* producer and the consumer of a ring never access the same slot at once.
C4_SlotExclusive ==
    /\ \A id \in Allocated : OneStatePerSlot(ring[id])
    /\ \A c \in Chans :
          /\ ~(/\ mpc = "recv" /\ c < rx_bufcnt
               /\ wthread[c].pc = "io"
               /\ rx_buffers[c] = wthread[c].idx)
          /\ ~(/\ mpc = "send" /\ c < tx_bufcnt
               /\ rthread[c].pc = "io"
               /\ tx_buffers[c] = rthread[c].idx)

\* C5 (as claimed): on every ring the slots reserved by the producer, committed
\* and reserved by the consumer never add up to more than slot_count, and the
\* ring keeps the slot count it was created with.
C5_OccupancyBound ==
    \A id \in Allocated :
        /\ Occupancy(ring[id]) <= RingSlots
        /\ ring[id].items = RingSlots

\* C6 (as claimed): on every ring each commit follows a successful reserve of
\* its own: commits never outnumber reserves, at most one reserve is open on
\* each side, and no thread commits after IDX_TIMEDOUT.
C6_CommitPairsReserve ==
    /\ \A id \in Allocated :
          /\ ring[id].pcom <= ring[id].pres /\ ring[id].pres <= ring[id].pcom + 1
          /\ ring[id].ccom <= ring[id].cres /\ ring[id].cres <= ring[id].ccom + 1
    /\ mpc = "ppost" /\ b \in Chans => rx_buffers[b] # OOB
    /\ mpc = "cpost" /\ b \in Chans => tx_buffers[b] # OOB

\* C7: a reserve that times out changes nothing of any ring, and a worker
\* thread that got IDX_TIMEDOUT goes back to its loop test: it is never at its
\* slot access or at its commit with IDX_TIMEDOUT as index.
C7_TimeoutAdvisory ==
    [][/\ \A c \in Chans :
            /\ (/\ wthread[c].pc = "wait" /\ wthread'[c].pc \in {"loop", "io"}
                /\ wthread'[c].idx = IDX_TIMEDOUT)
                   => /\ ring' = ring
                      /\ s_out_file' = s_out_file
                      /\ wthread'[c].pc = "loop"
            /\ (/\ rthread[c].pc = "wait" /\ rthread'[c].pc \in {"loop", "io"}
                /\ rthread'[c].idx = IDX_TIMEDOUT)
                   => /\ ring' = ring
                      /\ rthread'[c].pc = "loop"
            /\ wthread'[c].pc \in {"io", "post"} => wthread'[c].idx # IDX_TIMEDOUT
            /\ rthread'[c].pc \in {"io", "post"} => rthread'[c].idx # IDX_TIMEDOUT
       /\ (/\ mpc = "cwait" /\ (mpc' = "send" \/ (mpc' = "cwait" /\ b' # b))
           /\ b \in Chans /\ tx_buffers'[b] = OOB) => ring' = ring
       /\ (/\ mpc = "pwait" /\ (mpc' = "recv" \/ (mpc' = "pwait" /\ b' # b))
           /\ b \in Chans /\ rx_buffers'[b] = OOB) => ring' = ring]_vars
\* The writer of channel 0 has written a block out, has then timed out on the
\* empty ring and is back at its loop test; the block is still in the file.
C7_Witness ==
    /\ wthread[0].pc = "loop"
    /\ wthread[0].idx = IDX_TIMEDOUT
    /\ ring[0].ccom >= 1
    /\ ring[0].cres = ring[0].ccom
    /\ Len(s_out_file[0]) = ring[0].ccom

\* The calls of one operation, in call order.
CallsOf(op) == SelectSeq(calls, LAMBDA c : c.op = op)
\* Call k of the log is usdr_dms_op(strm, USDR_DMS_START, ...).
IsStart(k, strm) == calls[k].op = "op" /\ calls[k].arg = "START" /\ calls[k].strm = strm
\* Call k of the log is usdr_dms_sync with the requested mode.
IsSyncMode(k) == calls[k].op = "sync" /\ calls[k].arg # "off"
\* The part of the protocol order that does not depend on what "enabled" means.
SyncOrderCommon ==
    \A k \in 1..Len(calls) :
        /\ (calls[k].op = "op" /\ calls[k].arg = "START")
              => /\ calls[k].tm = 0
                 /\ \E j \in 1..(k - 1) : calls[j].op = "sync" /\ calls[j].arg = "off"
        /\ calls[k].op \in {"send", "recv"} => \E j \in 1..(k - 1) : IsSyncMode(j)

\* C8 (as claimed): sync "off" precedes every START, every START carries
\* timestamp 0, the sync with the requested mode is called only after START was
\* issued on every stream the options enable, and no send or recv precedes it.
C8_SyncOrder_Enabled ==
    /\ SyncOrderCommon
    /\ \A k \in 1..Len(calls) :
          IsSyncMode(k) => /\ dorx => \E j \in 1..(k - 1) : IsStart(j, "RX")
                           /\ dotx => \E j \in 1..(k - 1) : IsStart(j, "TX")
\* C8 (amended): sync "off" precedes every START, every START carries
\* timestamp 0, no send or recv precedes the sync with the requested mode, and
\* that sync is called only after START was issued on every enabled stream that
\* was created: on every enabled stream when stop_on_error is set.
C8_SyncOrder_Created ==
    /\ SyncOrderCommon
    /\ \A k \in 1..Len(calls) :
          IsSyncMode(k) =>
              /\ (dorx /\ (stop_on_error \/ usds_rx # NULL))
                    => \E j \in 1..(k - 1) : IsStart(j, "RX")
              /\ (dotx /\ (stop_on_error \/ usds_tx # NULL))
                    => \E j \in 1..(k - 1) : IsStart(j, "TX")
\* A TX+RX session has started both streams, synchronised, sent and received.
C8_Witness ==
    /\ dotx /\ dorx
    /\ Len(CallsOf("send")) >= 1
    /\ Len(CallsOf("recv")) >= 1
    /\ \E k \in 1..Len(calls) : IsSyncMode(k)

\* C9: the Nth call of usdr_dms_send (N = 0, 1, ...) carries the timestamp
\* samples_tx + N * samples_tx, in TX-only and in TX+RX mode, and UINT64_MAX
\* when timestamps are off; stm moves on only after a send that succeeded.
C9_TxTimestamps ==
    LET sends == CallsOf("send")
        sent == Len(sends)
    IN /\ \A n \in 1..sent :
             sends[n].tm = IF nots THEN UINT64_MAX
                           ELSE start_tx_delay + (n - 1) * samples_tx
       /\ mpc \in {"loop", "cwait", "send", "pwait", "recv", "ppost"}
             => stm = start_tx_delay + sent * samples_tx
       /\ mpc = "cpost" => stm = start_tx_delay + (sent - 1) * samples_tx
       /\ (mpc = "stop" /\ sent >= 1 /\ calls[Len(calls)].op = "send" /\ res # 0)
             => stm = start_tx_delay + (sent - 1) * samples_tx
\* A TX+RX session with timestamps has sent its second block.
C9_Witness ==
    /\ ~nots /\ dorx
    /\ Len(CallsOf("send")) >= 2
    /\ CallsOf("send")[2].tm = 2 * samples_tx

\* The steps of the setup sequence that test stop_on_error, and the step after each.
SetupSucc ==
    [rate |-> "create_rx",
     create_rx |-> IF dorx THEN "info_rx" ELSE "create_tx", info_rx |-> "create_tx",
     create_tx |-> IF dotx THEN "info_tx" ELSE "chk_chs", info_tx |-> "chk_chs",
     sync_off |-> "start_rx", start_rx |-> "start_tx", start_tx |-> "sync_mode",
     sync_mode |-> "antcfg", findsetv |-> "chk_null"]
\* The options run the step: the device is initialised, the stream is enabled.
StepRuns(step) ==
    IF step \in {"rate", "findsetv"} THEN ~noinit
    ELSE IF step \in {"create_rx", "start_rx"} THEN dorx
    ELSE IF step \in {"create_tx", "start_tx"} THEN dotx
    ELSE TRUE
\* C10: with stop_on_error, after the first failed step of the setup sequence
\* main is at dev_close or beyond, no call but the destroy calls of dev_close
\* follows the failed one, and main returns that error; without stop_on_error
\* every step of the sequence is followed by the next step, failed or not.
C10_StopOnError ==
    /\ [](hist.abort_res # 0 =>
            /\ mpc \in {"dev_close", "returned", "exited", "crashed"}
            /\ \A k \in (hist.abort_calls + 1)..Len(calls) : calls[k].op = "destroy"
            /\ mpc = "returned" => retval = hist.abort_res)
    /\ [][(mpc \in DOMAIN SetupSucc /\ mpc' \notin {mpc, "exited", "crashed"}) =>
            IF StepRuns(mpc) /\ res' # 0 /\ stop_on_error
            THEN mpc' = "dev_close" /\ hist'.abort_res = res'
            ELSE mpc' = SetupSucc[mpc]]_vars
\* A session with stop_on_error was aborted by a failed START and has returned
\* the error of that START.
C10_Witness ==
    /\ stop_on_error
    /\ mpc = "returned"
    /\ hist.abort_res # 0
    /\ retval = hist.abort_res
    /\ calls[hist.abort_calls].arg = "START"

\* Thread c of a kind was started by pthread_create.
Started(t, c) == t[c].pc # "none"
\* main has returned with an error: it jumped to dev_close.
ReturnedError == mpc = "returned" /\ retval # 0

\* C11 (as claimed): when main returns after an abort on an error that came
\* after worker threads were started, every stream is closed and every worker
\* thread that was started has been joined, so none is still running.
C11_AbortJoinsWorkers ==
    (ReturnedError /\ \E c \in Chans : Started(wthread, c) \/ Started(rthread, c)) =>
        /\ \A s \in {"RX", "TX"} : dev[s] \in {"none", "destroyed"}
        /\ \A c \in Chans :
              /\ Started(wthread, c) => c \in hist.wjoined /\ wthread[c].pc = "done"
              /\ Started(rthread, c) => c \in hist.rjoined /\ rthread[c].pc = "done"

\* The usdr_dms_destroy calls on a stream.
Destroys(s) == SelectSeq(calls, LAMBDA c : c.op = "destroy" /\ c.strm = s)
\* The stream was created: usdr_dms_create returned 0 and set the handle.
Created(s) == IF s = "RX" THEN usds_rx # NULL ELSE usds_tx # NULL
\* C12 (as claimed): when main has returned, every stream that was created has
\* been destroyed exactly once and a stream that was never created has not been
\* destroyed.
C12_DestroyAlways ==
    mpc = "returned" =>
        \A s \in {"RX", "TX"} :
            /\ Len(Destroys(s)) = IF Created(s) THEN 1 ELSE 0
            /\ dev[s] = IF Created(s) THEN "destroyed" ELSE "none"

C14_WorkerIoFailure ==
    [][/\ \A c \in Chans :
            /\ (hist'.ioerr /\ ~hist.ioerr /\ wthread[c].pc = "io" /\ wthread'[c].pc = "done")
                  => ring' = ring
            /\ (hist'.ioerr /\ ~hist.ioerr /\ rthread[c].pc = "io" /\ rthread'[c].pc = "done")
                  => ring' = ring
            /\ (wthread[c].pc = "done" /\ ~thread_stop) => wthread'[c].pc \in {"done", "none"}
            /\ (rthread[c].pc = "done" /\ ~thread_stop) => rthread'[c].pc \in {"done", "none"}
       /\ (hist.ioerr /\ mpc = "loop" /\ mpc' # "loop") => mpc' \in {"stop", "exited"}]_vars

\* The cursors main moves on the rings of one stream: the producer side of the
\* RX rings, the consumer side of the TX rings.
RxCursors(c) == <<ring[rbuff[c]].pres, ring[rbuff[c]].pcom>>
TxCursors(c) == <<ring[tbuff[c]].cres, ring[tbuff[c]].ccom>>

\* C15: every block handed to send or recv lies at the same slot index in each
\* channel ring of the stream, and after every iteration the per-channel
\* cursors of the rings of one stream are equal, timed-out reserves included.
C15_ChannelAlignment ==
    /\ mpc = "recv" => \A c \in Chans : c < rx_bufcnt => rx_buffers[c] = rx_buffers[0]
    /\ mpc = "send" => \A c \in Chans : c < tx_bufcnt => tx_buffers[c] = tx_buffers[0]
    /\ mpc = "loop" =>
          /\ \A c \in Chans : c < rx_bufcnt => RxCursors(c) = RxCursors(0)
          /\ \A c \in Chans : c < tx_bufcnt => TxCursors(c) = TxCursors(0)

\* The producer side and the consumer side of a ring.
ProducerSide(id) == <<ring[id].pres, ring[id].pcom>>
ConsumerSide(id) == <<ring[id].cres, ring[id].ccom>>

\* Whose step it is: every step of a worker moves that worker's position and
\* leaves main's variables alone, a step of main moves no worker.
ByMain == UNCHANGED <<wthread, rthread>>
ByWriter(c) == wthread'[c] # wthread[c] /\ UNCHANGED <<mainvars, rthread>>
ByTxThread(c) == rthread'[c] # rthread[c] /\ UNCHANGED <<mainvars, wthread>>

\* C16: each ring has one producer and one consumer thread (rbuff[c]: main
\* produces, writer c consumes; tbuff[c]: worker c produces, main consumes),
\* and every stream call is made by main, never by a worker.
C16_Ownership ==
    [][/\ \A c \in Chans :
            /\ (rbuff[c] \in RingIds /\ rbuff'[c] = rbuff[c] /\ mpc' # "exited") =>
                 /\ ProducerSide(rbuff[c])' # ProducerSide(rbuff[c]) => ByMain
                 /\ ConsumerSide(rbuff[c])' # ConsumerSide(rbuff[c]) => ByWriter(c)
            /\ (tbuff[c] \in RingIds /\ tbuff'[c] = tbuff[c] /\ mpc' # "exited") =>
                 /\ ProducerSide(tbuff[c])' # ProducerSide(tbuff[c]) => ByTxThread(c)
                 /\ ConsumerSide(tbuff[c])' # ConsumerSide(tbuff[c]) => ByMain
       /\ calls' # calls => ByMain
       /\ dev' # dev => ByMain]_vars
C16_Witness ==
    /\ rbuff[0] \in RingIds /\ tbuff[0] \in RingIds
    /\ ring[rbuff[0]].pcom >= 1 /\ ring[rbuff[0]].ccom >= 1
    /\ ring[tbuff[0]].pcom >= 1 /\ ring[tbuff[0]].ccom >= 1
    /\ Len(CallsOf("recv")) >= 1 /\ Len(CallsOf("send")) >= 1

\* main has just returned from usdr_dms_recv or usdr_dms_send.
Transferred == mpc \in {"recv", "send"} /\ calls' # calls

\* C17: a timeout of usdr_dms_recv or usdr_dms_send is told apart from a hard
\* failure and does not end the run: after a hard error main goes to stop,
\* after a timeout it goes on with the block loop.
C17_TimeoutSoft ==
    [][Transferred =>
          /\ res' = EIO => mpc' = "stop"
          /\ res' = ETIMEDOUT => mpc' # "stop"]_vars

\* The TX rings main has created.
TxRings == {c \in Chans : tbuff[c] \in RingIds}

\* C18: every TX ring has the slot size usdr_dms_info reported and there is one
\* ring per reported channel; the block a TX producer writes into a slot and
\* the samples passed to usdr_dms_send per block fit one slot, also when the
\* stream's packet size is not the samples_tx asked for.
C18_GeometrySizesBuffers ==
    /\ \A c \in TxRings : c < tx_bufcnt /\ ring[tbuff[c]].isize = pktbszie(opt.pktsyms_tx)
    /\ \A c \in TxRings :
          rthread[c].pc = "io" /\ ~tx_from_file => SlotHolds(ring[tbuff[c]], tx_get_samples)
    /\ (mpc = "send" /\ TxRings # {}) =>
          \A c \in TxRings : SlotHolds(ring[tbuff[c]], samples_tx)

\* The last call of the log is op on stream s with the given argument.
LastCall(op, s, arg) ==
    /\ calls # <<>>
    /\ calls[Len(calls)].op = op /\ calls[Len(calls)].strm = s /\ calls[Len(calls)].arg = arg

C20_StartStop ==
    [][\A s \in Streams :
          /\ usdr_dms_op(s, "STOP") =>
                IF dev[s] = "started"
                THEN res' = 0 /\ dev'[s] = "stopped"
                ELSE res' = InvalidState /\ dev' = dev
          /\ (usdr_dms_op(s, "START") /\ dev[s] = "started") =>
                res' = InvalidState /\ dev' = dev]_vars
C20_Witness ==
    \E s \in Streams :
       /\ LastCall("op", s, "START") /\ res = InvalidState /\ dev[s] = "started"
       /\ \E k \in 1..Len(calls) : calls[k].op = "op" /\ calls[k].strm = s /\ calls[k].arg = "STOP"

\* C24: every per-channel buffer passed to usdr_dms_send is a slot of the
\* channel's ring that the producer has committed and that main holds through
\* a successful ring_buffer_cwait: the one slot reserved and not yet released,
\* never the buffer of a timed-out cwait; so each committed block is sent at
\* most once.
C24_SentWasProduced ==
    mpc = "send" =>
        \A c \in Chans : c < tx_bufcnt =>
            LET r == ring[tbuff[c]]
            IN /\ tx_buffers[c] \in 0..(r.items - 1)
               /\ r.cres = r.ccom + 1
               /\ r.cres <= r.pcom
               /\ tx_buffers[c] = (r.cres - 1) % r.items

\* The session takes its block count from the TX file's size.
CountFromFile == dotx /\ tx_from_file /\ ~opt.explicit_count /\ ~tx_file_cycle

\* C25: for a TX file given without a count and without cycling, count is the
\* file size divided by the block size, rounded up, and once disk_read_thread
\* has stopped at the end of the file it has committed exactly count blocks.
C25_CountFromFile ==
    CountFromFile =>
        /\ count * block_size >= file_size
        /\ count > 0 => (count - 1) * block_size < file_size
        /\ hist.eof => Len(hist.txcommit[0]) = count

\* This step makes the call op(arg) on stream s.
Issues(op, s, arg) ==
    /\ Len(calls') = Len(calls) + 1
    /\ calls'[Len(calls')].op = op /\ calls'[Len(calls')].strm = s
    /\ calls'[Len(calls')].arg = arg
\* The calls op(arg) made on stream s so far.
Issued(op, s, arg) ==
    SelectSeq(calls, LAMBDA c : c.op = op /\ c.strm = s /\ c.arg = arg)
\* START and STOP are issued at most once per stream; STOP, send and recv
\* follow the START of their stream, send and recv precede its STOP.
StartStopOrder ==
    /\ [](\A s \in Streams : Len(Issued("op", s, "START")) <= 1
                          /\ Len(Issued("op", s, "STOP")) <= 1)
    /\ [][\A s \in Streams :
            /\ Issues("op", s, "STOP") => Len(Issued("op", s, "START")) = 1
            /\ (Issues("send", s, "-") \/ Issues("recv", s, "-")) =>
                  /\ Len(Issued("op", s, "START")) = 1
                  /\ Len(Issued("op", s, "STOP")) = 0]_vars

\* C26 (as claimed): with either stop_on_error setting, START and STOP are
\* issued at most once per stream, STOP is issued only on a stream whose START
\* succeeded, and send / recv are called only on a started stream.
C26_StartStop_AnySetting ==
    /\ StartStopOrder
    /\ [][\A s \in Streams :
            (Issues("op", s, "STOP") \/ Issues("send", s, "-") \/ Issues("recv", s, "-"))
               => dev[s] = "started"]_vars

\* C26 (amended): the order of START, STOP, send and recv holds in every
\* execution; that the START has succeeded when STOP, send or recv is called
\* holds in the executions with stop_on_error.
C26_StartStop_StopOnError ==
    /\ StartStopOrder
    /\ [][\A s \in Streams :
            (stop_on_error /\ (Issues("op", s, "STOP") \/ Issues("send", s, "-")
                                 \/ Issues("recv", s, "-")))
               => dev[s] = "started"]_vars
\* A session with stop_on_error has started and stopped its RX stream after
\* receiving a block.
C26_Witness ==
    /\ stop_on_error /\ dev["RX"] = "stopped"
    /\ Len(Issued("recv", "RX", "-")) >= 1 /\ Len(Issued("op", "RX", "STOP")) = 1

\* C27: if the streaming loop ended because usdr_dms_send or usdr_dms_recv
\* returned an error, main returns a non-zero status whatever the STOP,
\* debug-read and teardown calls return afterwards; main returns 0 only if
\* every send and recv of the run succeeded.
C27_ErrorReachesExit ==
    (mpc = "returned" /\ (hist.rxerr \/ hist.txerr)) => retval # 0

\* C28: rbuff, tbuff, wthread, rthread and buffers[] are only indexed with a
\* channel index below MAX_CHS, with either stop_on_error setting: no ring
\* creation, thread creation, streaming step or join for an index >= MAX_CHS.
C28_ChannelBound ==
    (mpc \in TxIndexSteps \cup RxIndexSteps /\ b < IndexedCount) => b < MAX_CHS

\* ------------------------------------------------- converter selection
\* The selections made so far by conv_get_f32_i12_c / conv_get_f32_i12.
Selections(op) == {k \in 1..Len(xdsp.log) : xdsp.log[k].op = op}
\* The most capable of the built functions a capability value allows.
MostCapable(fn, cap) ==
    /\ fn \in Built /\ Requires(fn) <= cap
    /\ \A g \in Built : Requires(g) <= cap => Requires(g) <= Requires(fn)

\* C21: for every capability value, conv_get_f32_i12_c returns a non-null
\* function that needs no CPU feature beyond cpu_cap: the AVX2 function only
\* when cpu_cap includes AVX2 and the build has it, the most capable function
\* that qualifies, the generic one otherwise; the name written through sfunc
\* names the function returned.
C21_CapabilityGated ==
    mpc = "xdsp" =>
        \A k \in Selections("conv_get_f32_i12_c") :
            LET e == xdsp.log[k]
            IN /\ e.fn # NULL_FN
               /\ Requires(e.fn) <= e.cap
               /\ e.fn = tr_conv_f32_i12_avx2 <=> (e.cap >= OPT_AVX2 /\ xdsp.wvlt_avx)
               /\ MostCapable(e.fn, e.cap)
               /\ e.fn # tr_conv_f32_i12_avx2 => e.fn = tr_conv_f32_i12_generic
               /\ e.sfunc => e.out = FnName(e.fn)
\* A process has selected with no capability, a partial one and a full one,
\* and got the AVX2 function by name for the full one only.
C21_Witness ==
    /\ mpc = "xdsp" /\ xdsp.wvlt_avx /\ Len(xdsp.log) = 3
    /\ xdsp.log[1].cap = OPT_GENERIC /\ xdsp.log[1].fn = tr_conv_f32_i12_generic
    /\ xdsp.log[2].cap = OPT_AVX2 - 1 /\ xdsp.log[2].out = "tr_conv_f32_i12_generic"
    /\ xdsp.log[3].cap = MaxCap /\ xdsp.log[3].out = "tr_conv_f32_i12_avx2"
    /\ \A k \in 1..3 : xdsp.log[k].op = "conv_get_f32_i12_c"

============================================================================
